---- MODULE Spec2Model ----
(***************************************************************************)
(* kongcue: schema generation from a Kong command tree, two-pass           *)
(* validation of a loaded configuration document in Config.BeforeResolve,  *)
(* and flag resolution by cueResolver.Resolve.                             *)
(*                                                                         *)
(* Names and dotted paths are sequences of one-character strings, so that  *)
(* kebabToSnake, pascalCase, strings.Join, strings.HasPrefix and           *)
(* cue.ParsePath are computed character by character as the code does.     *)
(* Document scalar values are opaque strings, integers and booleans.       *)
(***************************************************************************)
EXTENDS Integers, Sequences, FiniteSets, TLC

(***************************************************************************)
(* Bounds                                                                  *)
(***************************************************************************)
MaxDocFields == 2

MaxDocRuns == 2

(***************************************************************************)
(* Strings (package strings, sort.Strings)                                 *)
(***************************************************************************)
\* the bytes that occur in names, in ASCII order
Alphabet ==
  << " ", "#", "-", ".", "0", "1", "2", "3",
     "A", "B", "C", "D", "E", "F", "G", "H", "I", "J", "K", "L", "M",
     "N", "O", "P", "Q", "R", "S", "T", "U", "V", "W", "X", "Y", "Z",
     "_",
     "a", "b", "c", "d", "e", "f", "g", "h", "i", "j", "k", "l", "m",
     "n", "o", "p", "q", "r", "s", "t", "u", "v", "w", "x", "y", "z" >>

Ord(c) == CHOOSE i \in 1..Len(Alphabet) : Alphabet[i] = c

IsLower(c) == Ord(c) >= Ord("a") /\ Ord(c) <= Ord("z")

IsUpper(c) == Ord(c) >= Ord("A") /\ Ord(c) <= Ord("Z")

IsLetter(c) == IsLower(c) \/ IsUpper(c) \/ c = "_"

IsDigit(c) == Ord(c) >= Ord("0") /\ Ord(c) <= Ord("3")

\* strings.ToUpper on one byte
ToUpper(c) == IF IsLower(c) THEN Alphabet[Ord(c) - Ord("a") + Ord("A")] ELSE c

\* strings.ReplaceAll(s, from, to) for one-byte from and to
ReplaceAll(s, from, to) == [i \in 1..Len(s) |-> IF s[i] = from THEN to ELSE s[i]]

RECURSIVE Join(_, _)
\* strings.Join(elems, sep)
Join(elems, sep) ==
  IF Len(elems) = 0 THEN << >>
  ELSE IF Len(elems) = 1 THEN elems[1]
  ELSE elems[1] \o sep \o Join(Tail(elems), sep)

\* strings.HasPrefix(s, prefix)
HasPrefix(s, prefix) ==
  /\ Len(s) >= Len(prefix)
  /\ SubSeq(s, 1, Len(prefix)) = prefix

\* strings.Index(s, c) for a one-byte c, 1-based; 0 when absent (Go: -1)
Index(s, c) ==
  IF \E i \in 1..Len(s) : s[i] = c
  THEN CHOOSE i \in 1..Len(s) : s[i] = c /\ \A j \in 1..(i - 1) : s[j] # c
  ELSE 0

RECURSIVE Split(_, _)
\* the pieces of s between occurrences of the byte c
Split(s, c) ==
  LET i == Index(s, c) IN
  IF i = 0 THEN << s >>
  ELSE << SubSeq(s, 1, i - 1) >> \o Split(SubSeq(s, i + 1, Len(s)), c)

\* strings.Fields(s): the non-empty pieces of s between spaces
Fields(s) == SelectSeq(Split(s, " "), LAMBDA w : Len(w) > 0)

RECURSIVE StrLess(_, _)
\* s < t in byte order, as sort.Strings compares
StrLess(s, t) ==
  IF Len(t) = 0 THEN FALSE
  ELSE IF Len(s) = 0 THEN TRUE
  ELSE IF s[1] # t[1] THEN Ord(s[1]) < Ord(t[1])
  ELSE StrLess(Tail(s), Tail(t))

\* ast.IsValidIdent: an optional "#", then a letter, then letters and digits
IsValidIdent(s) ==
  LET body == IF Len(s) > 0 /\ s[1] = "#" THEN Tail(s) ELSE s IN
  /\ Len(body) > 0
  /\ IsLetter(body[1])
  /\ \A i \in 1..Len(body) : IsLetter(body[i]) \/ IsDigit(body[i])

(***************************************************************************)
(* Names that occur in the command trees, the policies and the documents   *)
(***************************************************************************)
n_agent == << "a", "g", "e", "n", "t" >>

n_ca_K_url == << "c", "a", "-", "u", "r", "l" >>

n_ca_url == << "c", "a", "_", "u", "r", "l" >>

n_log_K_file == << "l", "o", "g", "-", "f", "i", "l", "e" >>

n_log_file == << "l", "o", "g", "_", "f", "i", "l", "e" >>

n_match == << "m", "a", "t", "c", "h" >>

n_port == << "p", "o", "r", "t" >>

n_verbose == << "v", "e", "r", "b", "o", "s", "e" >>

n_debug == << "d", "e", "b", "u", "g" >>

n_config == << "c", "o", "n", "f", "i", "g" >>

n_help == << "h", "e", "l", "p" >>

n_token == << "t", "o", "k", "e", "n" >>

n_config_K_doc == << "c", "o", "n", "f", "i", "g", "-", "d", "o", "c" >>

n_name == << "n", "a", "m", "e" >>

n_server == << "s", "e", "r", "v", "e", "r" >>

n_host == << "h", "o", "s", "t" >>

n_server_K_tls == << "s", "e", "r", "v", "e", "r", "-", "t", "l", "s" >>

n_a_K_b == << "a", "-", "b" >>

n_a_b == << "a", "_", "b" >>

n_ports == << "p", "o", "r", "t", "s" >>

n_tags == << "t", "a", "g", "s" >>

n_labels == << "l", "a", "b", "e", "l", "s" >>

n_tls == << "t", "l", "s" >>

n_cert == << "c", "e", "r", "t" >>

n_dry_K_run == << "d", "r", "y", "-", "r", "u", "n" >>

n_level == << "l", "e", "v", "e", "l" >>

n_2fa == << "2", "f", "a" >>

n_code == << "c", "o", "d", "e" >>

n_typo == << "t", "y", "p", "o" >>

n_bad_field == << "b", "a", "d", "_", "f", "i", "e", "l", "d" >>

n_extra == << "e", "x", "t", "r", "a" >>

n_deep == << "d", "e", "e", "p" >>

n_foo == << "f", "o", "o" >>

n_bar == << "b", "a", "r" >>

n_foo_D_bar == << "f", "o", "o", ".", "b", "a", "r" >>

n_k == << "k" >>

(***************************************************************************)
(* Command trees (kong.Node, kong.Flag, kong.Value), read-only             *)
(***************************************************************************)
\* a flag whose target kind is k; the four predicates are kong.Value's
\* IsSlice, IsMap, IsCounter and IsBool, elemKind the slice's element kind,
\* sep the separator kong splits a multi-value flag's text at (Tag.Sep)
MkFlag(name, required, hidden, shape, k, elemKind) ==
  [ name |-> name, required |-> required, hidden |-> hidden,
    isSlice |-> shape = "slice", isMap |-> shape = "map",
    isCounter |-> shape = "counter", isBool |-> shape = "bool",
    kind |-> k, elemKind |-> elemKind, sep |-> "," ]

StringFlag(name, required) == MkFlag(name, required, FALSE, "scalar", "string", "invalid")

IntFlag(name, required) == MkFlag(name, required, FALSE, "scalar", "int", "invalid")

BoolFlag(name, required) == MkFlag(name, required, FALSE, "bool", "bool", "invalid")

CounterFlag(name) == MkFlag(name, FALSE, FALSE, "counter", "int", "invalid")

SliceFlag(name, required, elemKind) == MkFlag(name, required, FALSE, "slice", "slice", elemKind)

MapFlag(name) == MkFlag(name, FALSE, FALSE, "map", "map", "invalid")

\* the Config flag itself: a named slice type, reserved by name
ConfigFlag == MkFlag(n_config, FALSE, FALSE, "slice", "slice", "string")

HelpFlag == MkFlag(n_help, FALSE, FALSE, "bool", "bool", "invalid")

HiddenFlag(name) == MkFlag(name, FALSE, TRUE, "scalar", "string", "invalid")

\* type is kong.ApplicationNode, kong.CommandNode or kong.ArgumentNode;
\* configDoc says that the node's target type is kongcue.ConfigDoc
MkNode(type, name, configDoc, flags, children) ==
  [ type |-> type, name |-> name, configDoc |-> configDoc,
    flags |-> flags, children |-> children ]

Command(name, flags, children) == MkNode("command", name, FALSE, flags, children)

ConfigDocCommand == MkNode("command", n_config_K_doc, TRUE, << >>, << >>)

\* the tree of the specification's example: root flag log-file, command agent
\* with required ca-url and list match
TreeAgent ==
  MkNode("application", << >>, FALSE,
    << HelpFlag, CounterFlag(n_verbose), StringFlag(n_log_K_file, FALSE),
       BoolFlag(n_debug, FALSE), HiddenFlag(n_token), ConfigFlag >>,
    << Command(n_agent,
         << HelpFlag, StringFlag(n_ca_K_url, TRUE),
            SliceFlag(n_match, FALSE, "string"), IntFlag(n_port, FALSE) >>,
         << >>),
       ConfigDocCommand >>)

\* a required flag at the root, nested commands, a command with a kebab-case
\* name, a required list flag separated by ";", a list of ints and a map flag
TreeServer ==
  MkNode("application", << >>, FALSE,
    << HelpFlag, StringFlag(n_name, TRUE), ConfigFlag >>,
    << Command(n_server,
         << StringFlag(n_host, TRUE), IntFlag(n_port, FALSE),
            [ SliceFlag(n_tags, TRUE, "string") EXCEPT !.sep = ";" ],
            SliceFlag(n_ports, FALSE, "int"), MapFlag(n_labels) >>,
         << Command(n_tls, << StringFlag(n_cert, FALSE) >>, << >>) >>),
       Command(n_dry_K_run, << StringFlag(n_level, FALSE) >>, << >>) >>)

\* a command whose name is not an identifier
Tree2fa ==
  MkNode("application", << >>, FALSE,
    << StringFlag(n_name, FALSE), ConfigFlag >>,
    << Command(n_2fa, << StringFlag(n_code, FALSE) >>, << >>) >>)

\* a command below a positional argument that branches: server <code> tls,
\* the argument node having a flag of its own
TreeArg ==
  MkNode("application", << >>, FALSE,
    << StringFlag(n_name, FALSE), ConfigFlag >>,
    << Command(n_server, << StringFlag(n_host, FALSE) >>,
         << MkNode("argument", n_code, FALSE, << BoolFlag(n_debug, FALSE) >>,
              << Command(n_tls, << StringFlag(n_cert, FALSE) >>, << >>) >>) >>) >>)

Trees == { TreeAgent, TreeServer, Tree2fa, TreeArg }

\* trees whose names clash: the command server-tls and the command tls under
\* server both give the definition name ServerTls; the flags a-b and a_b
\* both give the field a_b, and the flag agent and the command agent the
\* field agent
ClashTrees ==
  { MkNode("application", << >>, FALSE,
      << StringFlag(n_name, FALSE), ConfigFlag >>,
      << Command(n_server_K_tls, << StringFlag(n_cert, FALSE) >>, << >>),
         Command(n_server, << StringFlag(n_host, FALSE) >>,
           << Command(n_tls, << IntFlag(n_level, FALSE) >>, << >>) >>),
         Command(n_agent, << StringFlag(n_ca_K_url, FALSE) >>, << >>) >>),
    MkNode("application", << >>, FALSE,
      << StringFlag(n_a_K_b, FALSE), IntFlag(n_a_b, FALSE),
         StringFlag(n_agent, FALSE), ConfigFlag >>,
      << Command(n_agent, << StringFlag(n_ca_K_url, FALSE) >>, << >>),
         Command(n_server, << StringFlag(n_host, FALSE) >>, << >>),
         Command(n_tls, << StringFlag(n_cert, FALSE) >>, << >>) >>) }

(***************************************************************************)
(* Policies (SchemaOptions, schemaOptions)                                 *)
(***************************************************************************)
\* the value AllowUnknownFields(paths...) binds
AllowUnknownFields(paths) ==
  IF Len(paths) = 0
  THEN [ AllowUnknownPaths |-> << >>, AllowAll |-> TRUE ]
  ELSE [ AllowUnknownPaths |-> paths, AllowAll |-> FALSE ]

\* the value Options() binds
defaultSchemaOptions == [ AllowUnknownPaths |-> << >>, AllowAll |-> FALSE ]

Policies ==
  { defaultSchemaOptions,
    AllowUnknownFields(<< >>),
    AllowUnknownFields(<< n_agent >>),
    AllowUnknownFields(<< n_extra >>),
    AllowUnknownFields(<< n_foo_D_bar, n_server >>) }

toInternal(o) ==
  [ allowUnknownPaths |-> o.AllowUnknownPaths, allowAll |-> o.AllowAll,
    permissiveTypes |-> FALSE ]

\* the policy matching every path that starts with the text of a listed path
shouldAllowUnknown_StringPrefix(opts, path) ==
  \/ opts.allowAll
  \/ \E i \in 1..Len(opts.allowUnknownPaths) :
       HasPrefix(path, opts.allowUnknownPaths[i])

\* the policy matching a listed path only, not what lies under it
shouldAllowUnknown_ExactOnly(opts, path) ==
  \/ opts.allowAll
  \/ \E i \in 1..Len(opts.allowUnknownPaths) : path = opts.allowUnknownPaths[i]

shouldAllowUnknown(opts, path) ==
  \/ opts.allowAll
  \/ \E i \in 1..Len(opts.allowUnknownPaths) :
       LET allowed == opts.allowUnknownPaths[i] IN
       \/ path = allowed
       \/ HasPrefix(path, allowed \o << "." >>)

\* the first segment of allowed at every level, related to path or not
getAllowedFieldAtPath_FirstSegment(allowed, path) ==
  LET idx == Index(allowed, ".") IN
  IF idx # 0 THEN SubSeq(allowed, 1, idx - 1) ELSE allowed

\* the empty sequence is Go's ""
getAllowedFieldAtPath(allowed, path) ==
  IF path = << >>
  THEN LET idx == Index(allowed, ".") IN
       IF idx # 0 THEN SubSeq(allowed, 1, idx - 1) ELSE allowed
  ELSE LET prefix == path \o << "." >> IN
       IF ~HasPrefix(allowed, prefix) THEN << >>
       ELSE LET rest == SubSeq(allowed, Len(prefix) + 1, Len(allowed))
                idx == Index(rest, ".") IN
            IF idx # 0 THEN SubSeq(rest, 1, idx - 1) ELSE rest

(***************************************************************************)
(* Schema generation (schema.go)                                           *)
(***************************************************************************)
\* type expressions: an identifier (string, int, number, bool, _), an open
\* list [...id], the empty struct literal {} and a reference #def
Ident(id) == [ t |-> "ident", id |-> id, def |-> << >> ]

ListLit(id) == [ t |-> "list", id |-> id, def |-> << >> ]

NewStruct == [ t |-> "struct", id |-> "", def |-> << >> ]

Ref(def) == [ t |-> "ref", id |-> "", def |-> def ]

\* the kinds of the default Go types only: int, float64, string and bool
kindToType_DefaultWidths(k) ==
  CASE k = "string" -> "string"
    [] k = "int" -> "int"
    [] k = "float64" -> "number"
    [] k = "bool" -> "bool"
    [] OTHER -> "_"

kindToType(k) ==
  CASE k = "string" -> "string"
    [] k \in { "int", "int8", "int16", "int32", "int64",
               "uint", "uint8", "uint16", "uint32", "uint64" } -> "int"
    [] k \in { "float32", "float64" } -> "number"
    [] k = "bool" -> "bool"
    [] OTHER -> "_"

sliceElemType(flag) ==
  IF flag.kind # "slice" THEN "_" ELSE kindToType(flag.elemKind)

valueToType(flag) ==
  IF flag.isSlice THEN ListLit(sliceElemType(flag))
  ELSE IF flag.isMap THEN NewStruct
  ELSE IF flag.isCounter THEN Ident("int")
  ELSE IF flag.isBool THEN Ident("bool")
  ELSE Ident(kindToType(flag.kind))

kebabToSnake(s) == ReplaceAll(s, "-", "_")

RECURSIVE Capitalize(_)
\* the loop of pascalCase over the words
Capitalize(words) ==
  IF Len(words) = 0 THEN << >>
  ELSE LET w == words[1] IN
       << IF Len(w) > 0 THEN << ToUpper(w[1]) >> \o Tail(w) ELSE w >>
         \o Capitalize(Tail(words))

pascalCase(s) ==
  Join(Capitalize(Fields(ReplaceAll(ReplaceAll(s, "-", " "), "_", " "))), << >>)

commandDefName(path) == pascalCase(Join(path, << "_" >>))

isConfigDocCommand(node) == node.configDoc

\* the builders skipping the reserved names only
SkippedFlag_ReservedOnly(flag) ==
  \/ flag.name = n_config
  \/ flag.name = n_help
  \/ flag.name = n_help \o << "-", "a", "l", "l" >>

\* the flags the three builders skip
SkippedFlag(flag) ==
  \/ flag.hidden
  \/ flag.name = n_config
  \/ flag.name = n_help
  \/ flag.name = n_help \o << "-", "a", "l", "l" >>

\* the flag's own type in the permissive schema too
FlagField_StrictTypes(flag, opts) ==
  [ label |-> kebabToSnake(flag.name),
    optional |-> ~flag.required,
    value |-> valueToType(flag) ]

\* every flag's field optional, as before required flags were supported
FlagField_AlwaysOptional(flag, opts) ==
  [ label |-> kebabToSnake(flag.name),
    optional |-> TRUE,
    value |-> IF opts.permissiveTypes THEN Ident("_") ELSE valueToType(flag) ]

\* the field a builder emits for one flag
FlagField(flag, opts) ==
  [ label |-> kebabToSnake(flag.name),
    optional |-> ~flag.required,
    value |-> IF opts.permissiveTypes THEN Ident("_") ELSE valueToType(flag) ]

RECURSIVE FlagFields(_, _)
FlagFields(flags, opts) ==
  IF Len(flags) = 0 THEN << >>
  ELSE IF SkippedFlag(flags[1]) THEN FlagFields(Tail(flags), opts)
  ELSE << FlagField(flags[1], opts) >> \o FlagFields(Tail(flags), opts)

\* a struct literal: its fields in order, and whether "..." was appended
buildFlagsStruct(node, opts) ==
  [ elts |-> FlagFields(node.flags, opts), ellipsis |-> FALSE ]

Labels(elts) == { elts[i].label : i \in 1..Len(elts) }

RECURSIVE AllowedFields(_, _, _, _)
\* the loop over opts.allowUnknownPaths that appends the synthetic fields
AllowedFields(elts, allowedPaths, dotPath, i) ==
  IF i > Len(allowedPaths) THEN elts
  ELSE LET fieldName == getAllowedFieldAtPath(allowedPaths[i], dotPath) IN
       IF fieldName # << >> /\ fieldName \notin Labels(elts)
       THEN AllowedFields(
              Append(elts, [ label |-> fieldName, optional |-> TRUE,
                             value |-> Ident("_") ]),
              allowedPaths, dotPath, i + 1)
       ELSE AllowedFields(elts, allowedPaths, dotPath, i + 1)

RECURSIVE RefFields(_, _)
\* one reference per child command that is not the ConfigDoc command
RefFields(children, path) ==
  IF Len(children) = 0 THEN << >>
  ELSE LET child == children[1] IN
       IF child.type # "command" \/ isConfigDocCommand(child)
       THEN RefFields(Tail(children), path)
       ELSE << [ label |-> child.name, optional |-> TRUE,
                 value |-> Ref(commandDefName(Append(path, child.name))) ] >>
              \o RefFields(Tail(children), path)

\* defs[defName] = commandDef{...}
Put(defs, defName, def) ==
  [ k \in DOMAIN defs \cup { defName } |-> IF k = defName THEN def ELSE defs[k] ]

RECURSIVE collectFrom(_, _, _, _, _)
\* the loop of collectCommandDefinitions from child i on
collectFrom(node, path, defs, opts, i) ==
  IF i > Len(node.children) THEN defs
  ELSE LET child == node.children[i] IN
       IF child.type # "command" \/ isConfigDocCommand(child)
       THEN collectFrom(node, path, defs, opts, i + 1)
       ELSE LET childPath == Append(path, child.name)
                defName == commandDefName(childPath)
                dotPath == Join(childPath, << "." >>)
                flagElts == buildFlagsStruct(child, opts).elts
                withRefs == flagElts \o RefFields(child.children, childPath)
                elts == AllowedFields(withRefs, opts.allowUnknownPaths, dotPath, 1)
                def == [ structLit |-> [ elts |-> elts, ellipsis |-> FALSE ],
                         path |-> dotPath ]
            IN collectFrom(node, path,
                 collectFrom(child, childPath, Put(defs, defName, def), opts, 1),
                 opts, i + 1)

collectCommandDefinitions(node, path, defs, opts) ==
  collectFrom(node, path, defs, opts, 1)

buildRootWithReferences(node, opts) ==
  LET flagElts == FlagFields(node.flags, opts)
      withRefs == flagElts \o RefFields(node.children, << >>)
  IN [ elts |-> AllowedFields(withRefs, opts.allowUnknownPaths, << >>, 1),
       ellipsis |-> FALSE ]

RECURSIVE Insert(_, _)
\* k put in its place in the sorted sequence
Insert(sorted, k) ==
  IF Len(sorted) = 0 THEN << k >>
  ELSE IF StrLess(k, sorted[1]) THEN << k >> \o sorted
  ELSE << sorted[1] >> \o Insert(Tail(sorted), k)

RECURSIVE SortStrings(_)
\* sort.Strings
SortStrings(keys) ==
  IF Len(keys) = 0 THEN << >>
  ELSE Insert(SortStrings(Tail(keys)), keys[1])

\* the keys as the range yields them, without the sort
sortedKeys_Unsorted(iter) == iter

\* iter is the order in which "for k := range m" yields the keys
sortedKeys(iter) == SortStrings(iter)

\* the ellipsis appended to every definition
Decl_AlwaysOpen(label, structLit, open) ==
  [ label |-> << "#" >> \o label,
    closed |-> ~open,
    structLit |-> [ elts |-> structLit.elts, ellipsis |-> TRUE ] ]

\* a definition of the file: #label: close({...}) or #label: {..., ...}
Decl(label, structLit, open) ==
  [ label |-> << "#" >> \o label,
    closed |-> ~open,
    structLit |-> [ elts |-> structLit.elts, ellipsis |-> open ] ]

RECURSIVE DefDecls(_, _, _)
DefDecls(defs, opts, names) ==
  IF Len(names) = 0 THEN << >>
  ELSE LET def == defs[names[1]] IN
       << Decl(names[1], def.structLit, shouldAllowUnknown(opts, def.path)) >>
         \o DefDecls(defs, opts, Tail(names))

Definitions(app, opts) ==
  collectCommandDefinitions(app, << >>, [ k \in {} |-> 0 ], opts)

\* the orders in which a range over the definitions map can yield its keys
IterOrders(app, opts) ==
  LET keys == DOMAIN Definitions(app, opts) IN
  { s \in [ 1..Cardinality(keys) -> keys ] :
      \A i, j \in 1..Cardinality(keys) : i # j => s[i] # s[j] }

\* file.Decls, for one iteration order of the definitions map
GenerateSchemaFile(app, opts, iter) ==
  LET defs == Definitions(app, opts)
      rootStruct == buildRootWithReferences(app, opts)
  IN << Decl(<< "R", "o", "o", "t" >>, rootStruct, shouldAllowUnknown(opts, << >>)) >>
       \o DefDecls(defs, opts, sortedKeys(iter))

\* format.Node prints a label that is not a valid identifier as a quoted
\* string, which makes it a regular field and not a definition
FormattedIsDefinition(decl) == IsValidIdent(decl.label)

RefsOf(decl) ==
  { decl.structLit.elts[i].value.def :
      i \in { j \in 1..Len(decl.structLit.elts) : decl.structLit.elts[j].value.t = "ref" } }

\* ctx.CompileBytes(src) and LookupPath("#Root"): the text compiles when every
\* reference is an identifier that names a definition of the file
CompileOk(decls) ==
  \A i \in 1..Len(decls) : \A def \in RefsOf(decls[i]) :
    /\ IsValidIdent(<< "#" >> \o def)
    /\ \E j \in 1..Len(decls) :
         decls[j].label = << "#" >> \o def /\ FormattedIsDefinition(decls[j])

\* the compiled value does not depend on the order of the declarations
CanonicalOrder(app, opts) ==
  CHOOSE s \in IterOrders(app, opts) : TRUE

\* the result of GenerateSchema: err, or the file whose first declaration is #Root
GenerateSchema(app, opts) ==
  LET file == GenerateSchemaFile(app, opts, CanonicalOrder(app, opts)) IN
  [ err |-> ~CompileOk(file), decls |-> file ]

(***************************************************************************)
(* Configuration documents (cue.Value as loaded by LoadAndUnifyPaths)      *)
(***************************************************************************)
MkValue(k, s, n, b, items, fields) ==
  [ k |-> k, s |-> s, n |-> n, b |-> b, items |-> items, fields |-> fields ]

StrV(s) == MkValue("string", s, 0, FALSE, << >>, << >>)

IntV(n) == MkValue("int", "", n, FALSE, << >>, << >>)

BoolV(b) == MkValue("bool", "", 0, b, << >>, << >>)

ListV(items) == MkValue("list", "", 0, FALSE, items, << >>)

StructV(fields) == MkValue("struct", "", 0, FALSE, << >>, fields)

\* a lookup that found nothing: Exists() is false
NoValue == MkValue("none", "", 0, FALSE, << >>, << >>)

\* the value LookupPath gives for an invalid path
PathError == MkValue("bottom", "", 0, FALSE, << >>, << >>)

\* LoadAndUnifyPaths returned an error
LoadError == MkValue("error", "", 0, FALSE, << >>, << >>)

F(key, val) == [ key |-> key, val |-> val ]

Keys(v) == { v.fields[i].key : i \in 1..Len(v.fields) }

FieldOf(v, key) == v.fields[CHOOSE i \in 1..Len(v.fields) : v.fields[i].key = key].val

\* the values a section of the document can hold
AgentSections ==
  { StructV(<< >>),
    StructV(<< F(n_ca_url, StrV("https://x")) >>),
    StructV(<< F(n_ca_url, StrV("https://x")), F(n_bad_field, IntV(1)) >>),
    StructV(<< F(n_bad_field, StructV(<< F(n_deep, IntV(1)) >>)),
               F(n_ca_url, StrV("https://x")) >>),
    StructV(<< F(n_ca_url, StrV("https://x")),
               F(n_match, ListV(<< StrV("*.a"), StrV("*.b") >>)) >>),
    StructV(<< F(n_port, StrV("9090")) >>),
    IntV(5) }

ServerSections ==
  { StructV(<< >>),
    StructV(<< F(n_host, StrV("h")) >>),
    StructV(<< F(n_host, StrV("h")), F(n_tls, StructV(<< F(n_cert, StrV("c")) >>)) >>),
    StructV(<< F(n_tls, StructV(<< F(n_typo, IntV(1)) >>)) >>),
    StructV(<< F(n_host, StrV("h")), F(n_labels, StructV(<< F(n_k, StrV("v")) >>)) >>),
    StructV(<< F(n_host, StrV("")), F(n_tags, ListV(<< StrV("t") >>)), F(n_extra, IntV(1)) >>),
    StructV(<< F(n_host, StrV("h")), F(n_tags, ListV(<< StrV("a"), StrV("b") >>)) >>),
    StructV(<< F(n_host, StrV("h")), F(n_tags, ListV(<< >>)),
               F(n_ports, ListV(<< IntV(1), IntV(2) >>)) >>) }

\* the fields a document can have at its root, for each tree: declared keys
\* with fitting and unfitting values, undeclared keys, sections
RootFields(tree) ==
  CASE tree = TreeAgent ->
         { F(n_log_file, StrV("/tmp/x")), F(n_log_file, IntV(5)),
           F(n_verbose, IntV(2)), F(n_verbose, IntV(0)), F(n_verbose, IntV(-1)),
           F(n_verbose, StrV("not-a-number")), F(n_verbose, StrV("2")),
           F(n_debug, BoolV(FALSE)), F(n_debug, BoolV(TRUE)), F(n_debug, StrV("true")),
           F(n_log_file, StrV("")),
           F(n_typo, StrV("x")),
           F(n_extra, StructV(<< F(n_deep, IntV(1)) >>)) }
         \cup { F(n_agent, v) : v \in AgentSections }
    [] tree = TreeServer ->
         { F(n_name, StrV("n")), F(n_name, StrV("")),
           F(n_typo, StrV("x")),
           F(n_foo, StructV(<< F(n_bar, StructV(<< F(n_k, IntV(1)) >>)) >>)),
           F(n_foo, StructV(<< F(n_k, IntV(1)) >>)), F(n_foo, IntV(5)),
           F(n_dry_K_run, StructV(<< F(n_level, StrV("x")) >>)) }
         \cup { F(n_server, v) : v \in ServerSections }
    [] tree = Tree2fa ->
         { F(n_name, StrV("n")), F(n_typo, StrV("x")),
           F(n_2fa, StructV(<< F(n_code, StrV("1")) >>)) }
    [] tree = TreeArg ->
         { F(n_name, StrV("n")),
           F(n_server, StructV(<< F(n_host, StrV("h")) >>)),
           F(n_server, StructV(<< F(n_debug, BoolV(TRUE)) >>)),
           F(n_server, StructV(<< F(n_tls, StructV(<< F(n_cert, StrV("c")) >>)) >>)) }

\* the documents: at most MaxDocFields root fields with distinct keys, the
\* fields in the order of their keys
Docs(tree) ==
  { StructV(fs) : fs \in
      UNION { { s \in [ 1..n -> RootFields(tree) ] :
                  \A i, j \in 1..n : i < j => StrLess(s[i].key, s[j].key) }
              : n \in 0..MaxDocFields } }

(***************************************************************************)
(* The constraint engine as the hook uses it: Unify, Validate, LookupPath  *)
(***************************************************************************)
\* one failure of a validation: the dotted path it is reported at and the
\* engine's message
Failure(path, msg) == [ path |-> Join(path, << "." >>), msg |-> msg ]

DeclOf(schema, def) ==
  schema.decls[CHOOSE i \in 1..Len(schema.decls) :
                 schema.decls[i].label = << "#" >> \o def]

\* the fields of a struct literal that carry the label
FieldsLabelled(structLit, label) ==
  SelectSeq(structLit.elts, LAMBDA f : f.label = label)

\* a basic type against a scalar of the document
ScalarFits(id, v) ==
  CASE id = "_" -> TRUE
    [] id = "string" -> v.k = "string"
    [] id = "int" -> v.k = "int"
    [] id = "number" -> v.k = "int"
    [] id = "bool" -> v.k = "bool"
    [] OTHER -> FALSE

RECURSIVE CheckValue(_, _, _, _, _)
RECURSIVE CheckStruct(_, _, _, _, _)
RECURSIVE CheckFields(_, _, _, _, _, _)
RECURSIVE CheckItems(_, _, _, _, _, _)
RECURSIVE CheckDeclared(_, _, _, _, _, _)

\* the failures of value v, found at path, against the type expression type
CheckValue(schema, type, v, path, concrete) ==
  CASE type.t = "ident" ->
         IF ScalarFits(type.id, v) THEN << >>
         ELSE << Failure(path, "conflicting values") >>
    [] type.t = "list" ->
         IF v.k = "list"
         THEN CheckItems(schema, Ident(type.id), v.items, path, concrete, 1)
         ELSE << Failure(path, "conflicting values") >>
    [] type.t = "struct" ->
         \* {} written inside a definition is closed with the definition
         CheckStruct(schema, [ elts |-> << >>, ellipsis |-> FALSE ], v, path, concrete)
    [] type.t = "ref" ->
         CheckStruct(schema, DeclOf(schema, type.def).structLit, v, path, concrete)

CheckItems(schema, type, items, path, concrete, i) ==
  IF i > Len(items) THEN << >>
  ELSE CheckValue(schema, type, items[i], Append(path, << Alphabet[Ord("0") + i - 1] >>), concrete)
         \o CheckItems(schema, type, items, path, concrete, i + 1)

\* a value against every declaration of its label
CheckDeclared(schema, declared, v, path, concrete, i) ==
  IF i > Len(declared) THEN << >>
  ELSE CheckValue(schema, declared[i].value, v, path, concrete)
         \o CheckDeclared(schema, declared, v, path, concrete, i + 1)

\* the fields of the document's struct, in document order
CheckFields(schema, structLit, fields, path, concrete, i) ==
  IF i > Len(fields) THEN << >>
  ELSE LET f == fields[i]
           declared == FieldsLabelled(structLit, f.key)
           here ==
             IF Len(declared) > 0
             THEN CheckDeclared(schema, declared, f.val, Append(path, f.key), concrete, 1)
             ELSE IF structLit.ellipsis THEN << >>
             ELSE << Failure(Append(path, f.key), "field not allowed") >>
       IN here \o CheckFields(schema, structLit, fields, path, concrete, i + 1)

\* a regular (not optional) field without a value in the document is
\* incomplete when its type is not concrete; lists and structs are concrete
Missing(structLit, v, path) ==
  LET absent == SelectSeq(structLit.elts,
                  LAMBDA f : ~f.optional /\ f.value.t = "ident" /\ f.label \notin Keys(v))
  IN [ i \in 1..Len(absent) |-> Failure(Append(path, absent[i].label), "incomplete value") ]

CheckStruct(schema, structLit, v, path, concrete) ==
  IF v.k # "struct" THEN << Failure(path, "conflicting values") >>
  ELSE CheckFields(schema, structLit, v.fields, path, concrete, 1)
         \o (IF concrete THEN Missing(structLit, v, path) ELSE << >>)

\* val.Unify(schema).Validate(): the failures of the document against #Root;
\* concrete is the option cue.Concrete(true)
Validate(schema, val, concrete) ==
  CheckStruct(schema, schema.decls[1].structLit, val, << >>, concrete)

RECURSIVE UnifyStruct(_, _, _)
RECURSIVE UnifyFields(_, _, _, _)

\* the document's fields, each unified with its declaration
UnifyFields(schema, structLit, fields, i) ==
  IF i > Len(fields) THEN << >>
  ELSE LET f == fields[i]
           declared == FieldsLabelled(structLit, f.key)
           val == IF Len(declared) > 0 /\ declared[1].value.t = "ref" /\ f.val.k = "struct"
                  THEN UnifyStruct(schema, DeclOf(schema, declared[1].value.def).structLit, f.val)
                  ELSE f.val
       IN << F(f.key, val) >> \o UnifyFields(schema, structLit, fields, i + 1)

\* unification adding the schema's list and struct fields whether or not the
\* document has them
UnifyStruct_AddsAgain(schema, structLit, v) ==
  LET added == SelectSeq(structLit.elts,
                 LAMBDA f : ~f.optional /\ f.value.t \in { "list", "struct" })
  IN StructV(UnifyFields(schema, structLit, v.fields, 1)
       \o [ i \in 1..Len(added) |->
              F(added[i].label,
                IF added[i].value.t = "list" THEN ListV(<< >>) ELSE StructV(<< >>)) ])

\* the schema adds the regular fields the document lacks: an open list is
\* the empty list, the empty struct the empty struct
UnifyStruct(schema, structLit, v) ==
  LET added == SelectSeq(structLit.elts,
                 LAMBDA f : ~f.optional /\ f.value.t \in { "list", "struct" }
                            /\ f.label \notin Keys(v))
  IN StructV(UnifyFields(schema, structLit, v.fields, 1)
       \o [ i \in 1..Len(added) |->
              F(added[i].label,
                IF added[i].value.t = "list" THEN ListV(<< >>) ELSE StructV(<< >>)) ])

\* val.Unify(schema)
Unify(val, schema) == UnifyStruct(schema, schema.decls[1].structLit, val)

\* cue.ParsePath parses its argument as an expression: a dotted chain of
\* identifiers gives the selectors; anything else (a name with "-", a name
\* that starts with a digit) gives a path that carries an error
ParsePath(cuePath) ==
  LET segs == Split(cuePath, ".") IN
  [ err |-> \E i \in 1..Len(segs) : ~IsValidIdent(segs[i]), selectors |-> segs ]

RECURSIVE Lookup(_, _)
Lookup(v, selectors) ==
  IF Len(selectors) = 0 THEN v
  ELSE IF v.k # "struct" \/ selectors[1] \notin Keys(v) THEN NoValue
  ELSE Lookup(FieldOf(v, selectors[1]), Tail(selectors))

\* v.LookupPath(p); for a path that carries an error the result is an error
\* value, from which no bool, int, string or list can be read
LookupPath(v, p) == IF p.err THEN PathError ELSE Lookup(v, p.selectors)

Exists(v) == v.k # "none"

(***************************************************************************)
(* Error report (filterErrorDetails)                                       *)
(***************************************************************************)
MessageLine(f) == [ line |-> "message", path |-> f.path, msg |-> f.msg, file |-> "" ]

PositionLine(file) == [ line |-> "position", path |-> << >>, msg |-> "", file |-> file ]

\* errors.Details prints, for each failure, its message and the positions
\* of the values involved: in the generated schema and in the config file.
\* The lines are kept in the order the failures were collected; the order
\* and the number of lines the cue library prints are not modelled, and no
\* property here depends on them.
RECURSIVE Details(_)
Details(errs) ==
  IF Len(errs) = 0 THEN << >>
  ELSE << MessageLine(errs[1]), PositionLine("generated-schema") >>
         \o (IF errs[1].msg = "incomplete value" THEN << >>
             ELSE << PositionLine("config.yaml") >>)
         \o Details(Tail(errs))

\* strings.Contains(line, s) for the three texts the filter looks for
Contains(l, s) ==
  IF l.line = "position" THEN s = "generated-schema" /\ l.file = "generated-schema"
  ELSE l.msg = s

filterErrorDetails(errs) ==
  LET filtered == SelectSeq(Details(errs), LAMBDA l : ~Contains(l, "generated-schema"))
      hasIncomplete == \E i \in 1..Len(filtered) : Contains(filtered[i], "incomplete value")
      hasNotAllowed == \E i \in 1..Len(filtered) : Contains(filtered[i], "field not allowed")
  IN [ text |-> "validation", lines |-> filtered,
       hintRequired |-> hasIncomplete, hintKeys |-> hasNotAllowed ]

\* formatValidationError taking every error for an unknown key
formatValidationError_AlwaysUnknownKey(f) ==
  [ wording |-> "unknown configuration key", hint |-> f.msg # "" ]

\* formatValidationError looks for two texts in err.Error(), which for
\* several failures is the message of the first of them; f is that failure
formatValidationError(f) ==
  IF f.msg = "field not allowed"
  THEN [ wording |-> "unknown configuration key", hint |-> TRUE ]
  ELSE IF f.msg = "incomplete value"
  THEN [ wording |-> "missing required configuration field", hint |-> FALSE ]
  ELSE [ wording |-> "configuration validation failed", hint |-> FALSE ]

\* ValidateConfig: the errors it can return, one for each failure that the
\* engine may put first; a nil error has the empty wording.  It validates
\* without cue.Concrete, so that no incomplete value is reported
ValidateConfig(schema, config) ==
  LET errs == Validate(schema, config, FALSE) IN
  IF errs = << >> THEN { [ wording |-> "", hint |-> FALSE ] }
  ELSE { formatValidationError(errs[i]) : i \in 1..Len(errs) }

\* the hook's other errors
HookError(text) ==
  [ text |-> text, lines |-> << >>, hintRequired |-> FALSE, hintKeys |-> FALSE ]

NoError == HookError("")

(***************************************************************************)
(* Flag resolution (cueResolver.Resolve)                                   *)
(***************************************************************************)
RECURSIVE NodeAt(_, _)
\* the node reached from node by the child indices idx
NodeAt(node, idx) ==
  IF Len(idx) = 0 THEN node ELSE NodeAt(node.children[idx[1]], Tail(idx))

RECURSIVE NodePathsFrom(_, _)
NodePathsFrom(node, idx) ==
  { idx } \cup UNION { NodePathsFrom(node.children[i], Append(idx, i)) :
                         i \in 1..Len(node.children) }

\* every node of the tree, as the child indices that lead to it
NodePaths(app) == NodePathsFrom(app, << >>)

RECURSIVE WalkUp(_, _, _)
\* the loop "for n := parent.Node(); n != nil; n = n.Parent"
WalkUp(app, idx, path) ==
  LET n == NodeAt(app, idx)
      p == IF n.type = "command" /\ n.name # << >> THEN << n.name >> \o path ELSE path
  IN IF Len(idx) = 0 THEN p ELSE WalkUp(app, SubSeq(idx, 1, Len(idx) - 1), p)

getCommandPath(app, idx) == WalkUp(app, idx, << >>)

\* what Resolve returns: nil, true, an int, a string, or strings joined
MkResult(kind, s, n, parts) == [ kind |-> kind, s |-> s, n |-> n, parts |-> parts ]

Nil == MkResult("nil", "", 0, << >>)

RECURSIVE StringItems(_)
\* the elements of a list that are strings
StringItems(items) ==
  IF Len(items) = 0 THEN << >>
  ELSE (IF items[1].k = "string" THEN << items[1].s >> ELSE << >>)
         \o StringItems(Tail(items))

\* extractValue handing back what is stored, false, zero and "" included
extractValue_KeepsZeroValues(val, isSlice) ==
  IF isSlice
  THEN IF val.k # "list"
       THEN IF val.k # "string" THEN Nil ELSE MkResult("string", val.s, 0, << >>)
       ELSE LET items == StringItems(val.items) IN
            IF Len(items) = 0 THEN Nil
            ELSE IF Len(items) = 1 THEN MkResult("string", items[1], 0, << >>)
            ELSE MkResult("joined", ",", 0, items)
  ELSE IF val.k = "bool" THEN MkResult("bool", IF val.b THEN "" ELSE "false", 0, << >>)
  ELSE IF val.k = "int" THEN MkResult("int", "", val.n, << >>)
  ELSE IF val.k = "string" THEN MkResult("string", val.s, 0, << >>)
  ELSE Nil

extractValue(val, isSlice) ==
  IF isSlice
  THEN IF val.k # "list"
       THEN IF val.k # "string" THEN Nil ELSE MkResult("string", val.s, 0, << >>)
       ELSE LET items == StringItems(val.items) IN
            IF Len(items) = 0 THEN Nil
            ELSE IF Len(items) = 1 THEN MkResult("string", items[1], 0, << >>)
            ELSE MkResult("joined", ",", 0, items)
  ELSE IF val.k = "bool" THEN (IF val.b THEN MkResult("bool", "", 0, << >>) ELSE Nil)
  ELSE IF val.k = "int" THEN (IF val.n > 0 THEN MkResult("int", "", val.n, << >>) ELSE Nil)
  ELSE IF val.k = "string" THEN (IF val.s # "" THEN MkResult("string", val.s, 0, << >>) ELSE Nil)
  ELSE Nil

\* the path Resolve builds for the flag of the node at idx
CuePath(app, idx, flag) ==
  LET cmdPath == getCommandPath(app, idx)
      flagName == ReplaceAll(flag.name, "-", "_")
  IN IF Len(cmdPath) = 0 THEN flagName
     ELSE Join(Append(cmdPath, flagName), << "." >>)

Resolve(value, app, idx, flag) ==
  LET val == LookupPath(value, ParsePath(CuePath(app, idx, flag))) IN
  IF ~Exists(val) THEN Nil ELSE extractValue(val, flag.isSlice)

(***************************************************************************)
(* State                                                                   *)
(***************************************************************************)
VARIABLES
  app,         \* k.Model: the command tree
  schemaOpts,  \* the *SchemaOptions bound to the parser
  val,         \* what LoadAndUnifyPaths returns: the document, or LoadError
  pc,          \* the position of Config.BeforeResolve
  schema,      \* the strict schema
  ran,         \* history: the passes run so far, each with its failures
  allErrs,     \* the failures appended so far
  merged,      \* val.Unify(schema)
  bound,       \* the value given to ctx.Bind, or Unset
  resolver,    \* the value of the resolver given to ctx.AddResolver, or Unset
  hookErr,     \* the error the hook returned, or NoError
  resolved,    \* the last Resolve: the flag asked for and the answer
  outputs,     \* what ConfigDoc.BeforeApply wrote, one entry per run
  iters,       \* history: the map iteration order of each of those runs
  validateErr, \* the last call of ValidateConfig and the error it returned
  pendingOpts, \* the package variable pendingOpts: the object it points to
  objs,        \* the schemaOptions objects allocated: allowUnknownFields of each
  parsers,     \* per parser: its position, the option it was built with,
               \* the object getSchemaOptions returned to it, the option used
  call         \* the last call of a function of the package made on its
               \* own: the function, its arguments and what it returned

vars == << app, schemaOpts, val, pc, schema, ran, allErrs, merged, bound,
           resolver, hookErr, resolved, outputs, iters, validateErr,
           pendingOpts, objs, parsers, call >>

\* the pending-options state of the first schema.go
staging == << pendingOpts, objs, parsers >>

\* two parsers are built and parse in one process
Parsers == { 1, 2 }

\* var pendingOpts = &schemaOptions{}, and no parser built yet
InitStaging ==
  /\ pendingOpts = 1
  /\ objs = << FALSE >>
  /\ parsers \in { [ p \in Parsers |-> [ pc |-> "new", wants |-> w[p], opts |-> 0,
                                         used |-> FALSE ] ] :
                     w \in [ Parsers -> BOOLEAN ] }

Unset == MkValue("unset", "", 0, FALSE, << >>, << >>)

NoSchema == [ err |-> FALSE, decls |-> << >> ]

NotValidated == [ called |-> FALSE, wording |-> "", hint |-> FALSE ]

NotAsked == [ asked |-> FALSE, idx |-> << >>, flag |-> HelpFlag, result |-> Nil ]

NotCalled ==
  [ fn |-> "", opts |-> toInternal(defaultSchemaOptions), allowed |-> << >>,
    path |-> << >>, flag |-> HelpFlag,
    allow |-> FALSE, field |-> << >>, type |-> Ident("_") ]

InitCommon ==
  /\ pc = "start"
  /\ schema = NoSchema
  /\ ran = << >>
  /\ allErrs = << >>
  /\ merged = Unset
  /\ bound = Unset
  /\ resolver = Unset
  /\ hookErr = NoError
  /\ resolved = NotAsked
  /\ outputs = << >>
  /\ iters = << >>
  /\ validateErr = NotValidated
  /\ call = NotCalled

Init ==
  /\ InitCommon
  /\ app \in Trees
  /\ schemaOpts \in Policies
  /\ pendingOpts = 1 /\ objs = << FALSE >>
  /\ parsers = [ p \in Parsers |-> [ pc |-> "new", wants |-> FALSE, opts |-> 0, used |-> FALSE ] ]
  /\ val \in Docs(app) \cup { LoadError }

hookVars == << pc, schema, ran, allErrs, merged, bound, resolver, hookErr >>

inputs == << app, schemaOpts, val >>

(***************************************************************************)
(* Config.BeforeResolve, step by step                                      *)
(***************************************************************************)
\* iter.Next() on val.Fields()
hasConfig(v) == v.k = "struct" /\ Len(v.fields) > 0

Fail(err) ==
  /\ hookErr' = err
  /\ pc' = "failed"

\* LoadAndUnifyPaths and the check that any config was loaded
Load ==
  /\ pc = "start"
  /\ IF val = LoadError
     THEN /\ Fail(HookError("unable to load config"))
          /\ UNCHANGED resolver
     ELSE IF ~hasConfig(val)
     THEN /\ resolver' = val
          /\ pc' = "done"
          /\ UNCHANGED hookErr
     ELSE /\ pc' = "loaded"
          /\ UNCHANGED << resolver, hookErr >>
  /\ UNCHANGED << inputs, call, staging, validateErr, schema, ran, allErrs, merged, bound, resolved, outputs, iters >>

\* opts := schemaOpts.toInternal(); schema, err := GenerateSchema(...)
Generate ==
  /\ pc = "loaded"
  /\ LET s == GenerateSchema(app, toInternal(schemaOpts)) IN
     IF s.err
     THEN /\ Fail(HookError("failed to generate config schema"))
          /\ UNCHANGED schema
     ELSE /\ schema' = s
          /\ pc' = "generated"
          /\ UNCHANGED hookErr
  /\ UNCHANGED << inputs, call, staging, validateErr, ran, allErrs, merged, bound, resolver, resolved, outputs, iters >>

\* the permissive options without the path-specific allows
permissiveOpts_NoPaths(opts) ==
  [ permissiveTypes |-> TRUE,
    allowUnknownPaths |-> << >>,
    allowAll |-> opts.allowAll ]

permissiveOpts(opts) ==
  [ permissiveTypes |-> TRUE,
    allowUnknownPaths |-> opts.allowUnknownPaths,
    allowAll |-> opts.allowAll ]

\* the first pass returning its failures at once
UnknownFieldPass_ShortCircuit ==
  /\ pc = "generated"
  /\ LET opts == toInternal(schemaOpts) IN
     IF opts.allowAll
     THEN /\ pc' = "checked"
          /\ UNCHANGED << ran, allErrs, hookErr >>
     ELSE LET permissiveSchema == GenerateSchema(app, permissiveOpts(opts)) IN
          IF permissiveSchema.err
          THEN /\ Fail(HookError("failed to generate config schema"))
               /\ UNCHANGED << ran, allErrs >>
          ELSE LET errs == Validate(permissiveSchema, val, FALSE) IN
               /\ allErrs' = allErrs \o errs
               /\ ran' = Append(ran, [ pass |-> "unknown", errs |-> errs ])
               /\ IF errs # << >>
                  THEN Fail(filterErrorDetails(errs))
                  ELSE pc' = "checked" /\ UNCHANGED hookErr
  /\ UNCHANGED << inputs, call, staging, validateErr, schema, merged, bound, resolver, resolved, outputs, iters >>

\* first pass, skipped when allowAll is set
UnknownFieldPass ==
  /\ pc = "generated"
  /\ LET opts == toInternal(schemaOpts) IN
     IF opts.allowAll
     THEN /\ pc' = "checked"
          /\ UNCHANGED << ran, allErrs, hookErr >>
     ELSE LET permissiveSchema == GenerateSchema(app, permissiveOpts(opts)) IN
          IF permissiveSchema.err
          THEN /\ Fail(HookError("failed to generate config schema"))
               /\ UNCHANGED << ran, allErrs >>
          ELSE LET errs == Validate(permissiveSchema, val, FALSE) IN
               /\ allErrs' = allErrs \o errs
               /\ ran' = Append(ran, [ pass |-> "unknown", errs |-> errs ])
               /\ pc' = "checked"
               /\ UNCHANGED hookErr
  /\ UNCHANGED << inputs, call, staging, validateErr, schema, merged, bound, resolver, resolved, outputs, iters >>

\* second pass: merged := val.Unify(schema); merged.Validate(cue.Concrete(true))
StrictPass ==
  /\ pc = "checked"
  /\ LET errs == Validate(schema, val, TRUE) IN
     /\ merged' = Unify(val, schema)
     /\ allErrs' = allErrs \o errs
     /\ ran' = Append(ran, [ pass |-> "strict", errs |-> errs ])
  /\ pc' = "validated"
  /\ UNCHANGED << inputs, call, staging, validateErr, schema, bound, resolver, hookErr, resolved, outputs, iters >>

\* the resolver registered before the failures are looked at
Finish_ResolverFirst ==
  /\ pc = "validated"
  /\ resolver' = merged
  /\ IF allErrs # << >>
     THEN /\ Fail(filterErrorDetails(allErrs))
          /\ UNCHANGED bound
     ELSE /\ bound' = merged
          /\ pc' = "done"
          /\ UNCHANGED hookErr
  /\ UNCHANGED << inputs, call, staging, validateErr, schema, ran, allErrs, merged, resolved, outputs, iters >>

\* the end of the hook: the report, or ctx.Bind and ctx.AddResolver
Finish ==
  /\ pc = "validated"
  /\ IF allErrs # << >>
     THEN /\ Fail(filterErrorDetails(allErrs))
          /\ UNCHANGED << bound, resolver >>
     ELSE /\ bound' = merged
          /\ resolver' = merged
          /\ pc' = "done"
          /\ UNCHANGED hookErr
  /\ UNCHANGED << inputs, call, staging, validateErr, schema, ran, allErrs, merged, resolved, outputs, iters >>

\* a caller that has generated the schema validates the loaded document
\* with ValidateConfig, as the tests of the package do
CallValidateConfig ==
  /\ pc = "generated"
  /\ ~validateErr.called
  /\ \E err \in ValidateConfig(schema, val) :
       validateErr' = [ called |-> TRUE, wording |-> err.wording, hint |-> err.hint ]
  /\ UNCHANGED << inputs, call, staging, hookVars, resolved, outputs, iters >>

\* kong asks the registered resolver for a flag of a node of the tree
ResolveFlag ==
  /\ pc = "done"
  /\ \E idx \in NodePaths(app) :
       \E i \in 1..Len(NodeAt(app, idx).flags) :
         LET flag == NodeAt(app, idx).flags[i] IN
         resolved' = [ asked |-> TRUE, idx |-> idx, flag |-> flag,
                       result |-> Resolve(resolver, app, idx, flag) ]
  /\ UNCHANGED << inputs, call, staging, validateErr, hookVars, outputs, iters >>

Next ==
  \/ Load
  \/ CallValidateConfig
  \/ Generate
  \/ UnknownFieldPass
  \/ StrictPass
  \/ Finish
  \/ ResolveFlag

Spec == Init /\ [][Next]_vars

(***************************************************************************)
(* ConfigDoc.BeforeApply: the schema text, generated repeatedly            *)
(***************************************************************************)
InitGen ==
  /\ InitCommon
  /\ app \in Trees
  /\ schemaOpts \in Policies
  /\ pendingOpts = 1 /\ objs = << FALSE >>
  /\ parsers = [ p \in Parsers |-> [ pc |-> "new", wants |-> FALSE, opts |-> 0, used |-> FALSE ] ]
  /\ val = StructV(<< >>)

\* one run of the config-doc command; iter is the order in which the range
\* over the definitions map yields its keys in this run
ConfigDocBeforeApply ==
  /\ Len(outputs) < MaxDocRuns
  /\ \E iter \in IterOrders(app, toInternal(schemaOpts)) :
       /\ outputs' = Append(outputs, GenerateSchemaFile(app, toInternal(schemaOpts), iter))
       /\ iters' = Append(iters, iter)
  /\ UNCHANGED << inputs, call, staging, validateErr, hookVars, resolved >>

NextGen == ConfigDocBeforeApply

SpecGen == InitGen /\ [][NextGen]_vars

\* the config-doc command run for the trees whose names clash
InitClash ==
  /\ InitCommon
  /\ app \in ClashTrees
  /\ schemaOpts \in Policies
  /\ val = StructV(<< >>)
  /\ pendingOpts = 1 /\ objs = << FALSE >>
  /\ parsers = [ p \in Parsers |-> [ pc |-> "new", wants |-> FALSE, opts |-> 0, used |-> FALSE ] ]

SpecClash == InitClash /\ [][NextGen]_vars

(***************************************************************************)
(* Pending options (the first schema.go: pendingOpts, getSchemaOptions)    *)
(***************************************************************************)
InitOpts ==
  /\ InitCommon
  /\ InitStaging
  /\ app = TreeAgent
  /\ schemaOpts = defaultSchemaOptions
  /\ val = StructV(<< >>)

\* kong.New applies the parser's options: the function AllowUnknownFields()
\* returned sets the field of whatever object pendingOpts points to
NewParser(p) ==
  /\ parsers[p].pc = "new"
  /\ parsers' = [ parsers EXCEPT ![p].pc = "built" ]
  /\ objs' = IF parsers[p].wants THEN [ objs EXCEPT ![pendingOpts] = TRUE ] ELSE objs
  /\ UNCHANGED << inputs, call, hookVars, resolved, outputs, iters, validateErr, pendingOpts >>

\* getSchemaOptions, first statement: opts := pendingOpts
ReadPending(p) ==
  /\ parsers[p].pc = "built"
  /\ parsers' = [ parsers EXCEPT ![p].pc = "read", ![p].opts = pendingOpts ]
  /\ UNCHANGED << inputs, call, hookVars, resolved, outputs, iters, validateErr, pendingOpts, objs >>

\* getSchemaOptions, second statement: pendingOpts = &schemaOptions{}
ResetPending(p) ==
  /\ parsers[p].pc = "read"
  /\ objs' = Append(objs, FALSE)
  /\ pendingOpts' = Len(objs) + 1
  /\ parsers' = [ parsers EXCEPT ![p].pc = "reset" ]
  /\ UNCHANGED << inputs, call, hookVars, resolved, outputs, iters, validateErr >>

\* GenerateSchema reads opts.allowUnknownFields of the object it was given
GenerateWith(p) ==
  /\ parsers[p].pc = "reset"
  /\ parsers' = [ parsers EXCEPT ![p].pc = "generated",
                                 ![p].used = objs[parsers[p].opts] ]
  /\ UNCHANGED << inputs, call, hookVars, resolved, outputs, iters, validateErr, pendingOpts, objs >>

NextOpts ==
  \E p \in Parsers :
    \/ NewParser(p)
    \/ ReadPending(p)
    \/ ResetPending(p)
    \/ GenerateWith(p)

SpecOpts == InitOpts /\ [][NextOpts]_vars

(***************************************************************************)
(* The functions of the package called on their own                        *)
(***************************************************************************)
\* a policy whose paths share a first segment, start with a flag of the
\* root, and run through a command of the tree to a flag of it and beside it
InitFn ==
  /\ InitCommon
  /\ app = TreeAgent
  /\ schemaOpts =
       AllowUnknownFields(<< n_foo_D_bar, n_foo \o << "." >> \o n_k,
                             n_log_file \o << "." >> \o n_k,
                             n_agent \o << "." >> \o n_port,
                             n_agent \o << "." >> \o n_extra \o << "." >> \o n_deep >>)
  /\ val = StructV(<< >>)
  /\ pendingOpts = 1 /\ objs = << FALSE >>
  /\ parsers = [ p \in Parsers |-> [ pc |-> "new", wants |-> FALSE, opts |-> 0, used |-> FALSE ] ]

\* the dotted paths the functions are asked about; the empty path is the root
PathPool ==
  { Join(p, << "." >>) : p \in
      { << >>, << n_agent >>, << n_agent \o << "x" >> >>, << n_agent, n_tls >>,
        << n_agent \o << "x" >>, n_tls >>, << n_server >>, << n_server, n_tls >>,
        << n_server, n_tls, n_foo >>, << n_foo >>, << n_foo, n_bar >> } }

\* opts.shouldAllowUnknown(path)
CallShouldAllowUnknown ==
  /\ call.fn = ""
  /\ \E allowAll \in BOOLEAN, path \in PathPool :
     \E paths \in { << >>, << n_agent >>, << n_foo, n_server \o << "." >> \o n_tls >> } :
       LET opts == [ allowUnknownPaths |-> paths, allowAll |-> allowAll,
                     permissiveTypes |-> FALSE ]
       IN call' = [ NotCalled EXCEPT !.fn = "shouldAllowUnknown", !.opts = opts,
                      !.path = path, !.allow = shouldAllowUnknown(opts, path) ]
  /\ UNCHANGED << inputs, staging, validateErr, hookVars, resolved, outputs, iters >>

\* opts.getAllowedFieldAtPath(allowed, path)
CallGetAllowedFieldAtPath ==
  /\ call.fn = ""
  /\ \E allowed \in PathPool \ { << >> }, path \in PathPool :
       call' = [ NotCalled EXCEPT !.fn = "getAllowedFieldAtPath", !.allowed = allowed,
                   !.path = path, !.field = getAllowedFieldAtPath(allowed, path) ]
  /\ UNCHANGED << inputs, staging, validateErr, hookVars, resolved, outputs, iters >>

\* the kinds reflect knows that occur as the target of a flag or as the
\* element of a slice
Kinds ==
  { "bool", "int", "int8", "int16", "int32", "int64",
    "uint", "uint8", "uint16", "uint32", "uint64",
    "float32", "float64", "string", "slice", "map", "struct", "ptr", "interface" }

\* valueToType(flag.Value), for a flag whose target has any kind: IsSlice,
\* IsMap and IsBool follow from the kind, IsCounter from the flag's tag
CallValueToType ==
  /\ call.fn = ""
  /\ \E k \in Kinds, counter \in BOOLEAN :
     \E elemKind \in IF k = "slice" THEN Kinds ELSE { "invalid" } :
       LET flag == [ MkFlag(n_k, FALSE, FALSE, k, k, elemKind)
                       EXCEPT !.isCounter = counter ]
       IN call' = [ NotCalled EXCEPT !.fn = "valueToType", !.flag = flag,
                      !.type = valueToType(flag) ]
  /\ UNCHANGED << inputs, staging, validateErr, hookVars, resolved, outputs, iters >>

NextFn ==
  \/ CallShouldAllowUnknown
  \/ CallGetAllowedFieldAtPath
  \/ CallValueToType
  \/ ConfigDocBeforeApply

SpecFn == InitFn /\ [][NextFn]_vars

(***************************************************************************)
(* Properties                                                              *)
(***************************************************************************)
\* the hook has returned
Returned == pc \in { "done", "failed" }

\* the hook has returned after running its validation passes
Validated == Returned /\ schema # NoSchema

\* the hook's report has a line for a failure with this message at this path
Reported(path, msg) ==
  \E i \in 1..Len(hookErr.lines) :
    /\ hookErr.lines[i].line = "message"
    /\ hookErr.lines[i].path = Join(path, << "." >>)
    /\ hookErr.lines[i].msg = msg

\* the report has a line for a failure with this message at or below path
ReportedAtOrBelow(path, msg) ==
  \E i \in 1..Len(hookErr.lines) :
    LET l == hookErr.lines[i] IN
    /\ l.line = "message"
    /\ l.msg = msg
    /\ \/ l.path = Join(path, << "." >>)
       \/ HasPrefix(l.path, Join(path, << "." >>) \o << "." >>)

RECURSIVE UndeclaredKeys(_, _, _, _, _)
\* the paths of the keys of section v that are no field of the definition
\* (given by its struct literal) addressed by path, here and in the sections
\* of v below; with closedOnly, only at the definitions whose path the
\* policy does not allow
UndeclaredKeys(s, structLit, v, path, closedOnly) ==
  IF v.k # "struct" THEN {}
  ELSE { Append(path, k) : k \in { k \in Keys(v) :
           /\ closedOnly => ~shouldAllowUnknown(toInternal(schemaOpts), Join(path, << "." >>))
           /\ k \notin Labels(structLit.elts) } }
       \cup UNION { UndeclaredKeys(s, DeclOf(s, f.value.def).structLit,
                                   FieldOf(v, f.label), Append(path, f.label), closedOnly) :
                    f \in { structLit.elts[i] : i \in
                            { j \in 1..Len(structLit.elts) :
                                /\ structLit.elts[j].value.t = "ref"
                                /\ structLit.elts[j].label \in Keys(v) } } }

\* the undeclared keys of the document at the definitions the policy closes
KeysAtClosed ==
  UndeclaredKeys(schema, schema.decls[1].structLit, val, << >>, TRUE)

\* C1: when the policy is not allow-all and the document has a key that is
\* not a field of the closed definition addressed by its parent path, the hook
\* fails, its report names that key in a "field not allowed" failure, and it
\* has no type failure at or below that key.
C1_UnknownFieldReported ==
  (Validated /\ ~schemaOpts.AllowAll) =>
    \A key \in KeysAtClosed :
      /\ pc = "failed"
      /\ Reported(key, "field not allowed")
      /\ hookErr.hintKeys
      /\ ~ReportedAtOrBelow(key, "conflicting values")

\* a nested unknown key (agent.bad_field) has been reported
C1_Witness ==
  /\ Validated /\ ~schemaOpts.AllowAll
  /\ \E key \in KeysAtClosed :
       /\ Len(key) = 2
       /\ Reported(key, "field not allowed")

\* the undeclared keys of the document in the agent section and below
KeysUnderAgent ==
  { key \in UndeclaredKeys(schema, schema.decls[1].structLit, val, << >>, FALSE) :
      Len(key) >= 2 /\ key[1] = n_agent }

\* every failure of both passes
Failures == { allErrs[i] : i \in 1..Len(allErrs) }

\* the policy AllowUnknownFields("agent") on a tree that has the command
AgentAllowed ==
  /\ schemaOpts = AllowUnknownFields(<< n_agent >>)
  /\ \E i \in 1..Len(app.children) :
       app.children[i].type = "command" /\ app.children[i].name = n_agent

\* C2: with the allowed prefix "agent", agent being a command, no undeclared
\* key under agent makes validation fail (no failure of either pass is at
\* or below such a key, whatever lies below it), while an undeclared key at
\* the document root makes the hook fail with an unknown-field failure.
C2_AgentOpenRootClosed ==
  (Validated /\ AgentAllowed) =>
    /\ \A key \in KeysUnderAgent : \A f \in Failures :
         /\ f.path # Join(key, << "." >>)
         /\ ~HasPrefix(f.path, Join(key, << "." >>) \o << "." >>)
    /\ \A key \in KeysAtClosed :
         Len(key) = 1 => pc = "failed" /\ Reported(key, "field not allowed")
    /\ \A f \in Failures :
         f.msg = "field not allowed" =>
           \E key \in KeysAtClosed : Len(key) = 1 /\ f.path = key[1]

\* a document with an undeclared struct under agent passed, values below it
\* included
C2_Witness ==
  /\ Validated /\ pc = "done" /\ AgentAllowed
  /\ \E key \in KeysUnderAgent :
       Lookup(val, key).k = "struct" /\ Lookup(bound, key) = Lookup(val, key)

\* the nodes that are the root or a command reached through commands only,
\* the ConfigDoc command excepted
IsSchemaNode(tree, idx) ==
  \A n \in 1..Len(idx) :
    LET node == NodeAt(tree, SubSeq(idx, 1, n)) IN
    node.type = "command" /\ ~node.configDoc

SchemaNodes(tree) == { idx \in NodePaths(tree) : IsSchemaNode(tree, idx) }

\* the names of the commands from the root down to the node at idx, the
\* nodes that are no commands left out
CommandNames(tree, idx) ==
  LET along == [ n \in 1..Len(idx) |-> NodeAt(tree, SubSeq(idx, 1, n)) ]
      commands == SelectSeq(along, LAMBDA node : node.type = "command")
  IN [ n \in 1..Len(commands) |-> commands[n].name ]

Snake(name) == [ i \in 1..Len(name) |-> IF name[i] = "-" THEN "_" ELSE name[i] ]

\* the path of the flag's key in the document
FlagPath(tree, idx, flag) == Append(CommandNames(tree, idx), Snake(flag.name))

\* the flags of the node that the schema declares
DeclaredFlags(tree, idx) ==
  { f \in { NodeAt(tree, idx).flags[i] : i \in 1..Len(NodeAt(tree, idx).flags) } :
      ~SkippedFlag(f) }

\* the section of the node is in the document, as a mapping
SectionPresent(doc, tree, idx) == Lookup(doc, CommandNames(tree, idx)).k = "struct"

\* the strict pass has run and has reported this failure
StrictFailure(path, msg) ==
  \E i \in 1..Len(ran) :
    /\ ran[i].pass = "strict"
    /\ \E j \in 1..Len(ran[i].errs) :
         ran[i].errs[j] = [ path |-> Join(path, << "." >>), msg |-> msg ]

\* C3: when the document contains a command's section but no value for a
\* flag declared required on that command, validation fails with a
\* missing-required-field failure at the flag's path and nothing is bound.
C3_MissingRequiredInSection ==
  Validated =>
    \A idx \in SchemaNodes(app) : \A flag \in DeclaredFlags(app, idx) :
      (/\ Len(idx) > 0
       /\ flag.required
       /\ SectionPresent(val, app, idx)
       /\ ~Exists(Lookup(val, FlagPath(app, idx, flag))))
      => /\ pc = "failed"
         /\ Reported(FlagPath(app, idx, flag), "incomplete value")
         /\ bound = Unset

\* C4: for every flag declared required, a loaded document without a value
\* at the flag's path fails the strict pass with a missing-required-field
\* failure: at the root, when the command's section is omitted, and when the
\* document has no fields at all.
C4_MissingRequiredAnywhere ==
  (Returned /\ val # LoadError /\ hookErr.text # "failed to generate config schema") =>
    \A idx \in SchemaNodes(app) : \A flag \in DeclaredFlags(app, idx) :
      (flag.required /\ ~Exists(Lookup(val, FlagPath(app, idx, flag))))
      => StrictFailure(FlagPath(app, idx, flag), "incomplete value")

\* the definition of the output that belongs to the node at idx
DeclFor(output, tree, idx) ==
  LET label == IF idx = << >> THEN << "#", "R", "o", "o", "t" >>
               ELSE << "#" >> \o commandDefName(CommandNames(tree, idx))
  IN output[CHOOSE i \in 1..Len(output) : output[i].label = label]

\* C5: in the generated schema the field of every flag declared required,
\* at the root or under any command, has no optional marker, and the field
\* of every other flag has it.
C5_RequiredNotOptional ==
  \A r \in 1..Len(outputs) :
    \A idx \in SchemaNodes(app) : \A flag \in DeclaredFlags(app, idx) :
      LET fields == FieldsLabelled(DeclFor(outputs[r], app, idx).structLit, Snake(flag.name)) IN
      /\ Len(fields) > 0
      /\ \A i \in 1..Len(fields) : fields[i].optional = ~flag.required

\* a schema was written for a tree with a required flag at the root and a
\* required flag under a command, next to optional flags
C5_Witness ==
  /\ Len(outputs) > 0
  /\ \E flag \in DeclaredFlags(app, << >>) : flag.required
  /\ \E idx \in SchemaNodes(app) : \E flag \in DeclaredFlags(app, idx) :
       Len(idx) > 0 /\ flag.required
  /\ \E idx \in SchemaNodes(app) : \E flag \in DeclaredFlags(app, idx) :
       ~flag.required

\* C6: every run of the schema generation for the same tree and policy
\* writes the same text: #Root first, then the command definitions in
\* lexicographic order of their names, whatever order the range over the
\* definitions map took.
C6_Deterministic ==
  /\ \A r, q \in 1..Len(outputs) : outputs[r] = outputs[q]
  /\ \A r \in 1..Len(outputs) :
       /\ outputs[r][1].label = << "#", "R", "o", "o", "t" >>
       /\ { outputs[r][i].label : i \in 2..Len(outputs[r]) }
            = { << "#" >> \o k : k \in DOMAIN Definitions(app, toInternal(schemaOpts)) }
       /\ \A i \in 2..(Len(outputs[r]) - 1) :
            StrLess(outputs[r][i].label, outputs[r][i + 1].label)

\* two runs whose map iteration orders differ, over three definitions
C6_Witness ==
  /\ Len(outputs) = 2
  /\ iters[1] # iters[2]
  /\ Len(outputs[1]) = 4
  /\ SortStrings(iters[1]) # iters[1]

\* the pass named p has run and has found no failure
PassSucceeded(p) ==
  \E i \in 1..Len(ran) : ran[i].pass = p /\ ran[i].errs = << >>

\* both passes have succeeded, the unknown-field pass not being run under
\* allow-all and neither pass for a document without fields
ValidationSucceeded ==
  /\ allErrs = << >>
  /\ \A i \in 1..Len(ran) : ran[i].errs = << >>
  /\ hasConfig(val) =>
       /\ PassSucceeded("strict")
       /\ ~schemaOpts.AllowAll => PassSucceeded("unknown")

RECURSIVE ErrsOf(_)
\* the failures of the passes, pass after pass
ErrsOf(passes) ==
  IF Len(passes) = 0 THEN << >> ELSE passes[1].errs \o ErrsOf(Tail(passes))

C10_ResolvePath ==
  resolved.asked =>
    LET found == Lookup(resolver, FlagPath(app, resolved.idx, resolved.flag)) IN
    /\ ~Exists(found) => resolved.result = Nil
    /\ (found.k = "string" /\ found.s # "") =>
         resolved.result = MkResult("string", found.s, 0, << >>)

\* what the registered document holds at the path of the resolved flag
Stored == Lookup(resolver, FlagPath(app, resolved.idx, resolved.flag))

C12_ListJoinedWithFlagSeparator ==
  (resolved.asked /\ resolved.flag.isSlice /\ Stored.k = "list") =>
    LET Text(v) == CASE v.k = "string" -> v.s
                     [] v.k = "int" -> << "0", "1", "2", "3" >>[v.n + 1]
                     [] v.k = "bool" -> IF v.b THEN "true" ELSE "false"
        items == Stored.items
        scalars == \A i \in 1..Len(items) : items[i].k \in { "string", "int", "bool" }
        texts == [ i \in 1..Len(items) |-> Text(items[i]) ]
    IN /\ Len(items) = 0 => resolved.result = Nil
       /\ (Len(items) = 1 /\ scalars) =>
            resolved.result = MkResult("string", texts[1], 0, << >>)
       /\ (Len(items) > 1 /\ scalars) =>
            resolved.result = MkResult("joined", resolved.flag.sep, 0, texts)

AllowedAt(path) ==
  \/ schemaOpts.AllowAll
  \/ \E i \in 1..Len(schemaOpts.AllowUnknownPaths) :
       LET p == schemaOpts.AllowUnknownPaths[i] IN
       \/ path = p
       \/ Len(path) > Len(p) /\ SubSeq(path, 1, Len(p) + 1) = p \o << "." >>

\* C14: the definition of the root (path "") and of each command is emitted
\* open, with an ellipsis and not wrapped in close(), if and only if the
\* policy allows unknown fields at the definition's dotted path; with
\* allow-all no definition is closed, and with the one prefix "agent" the
\* root is closed and the agent definition open.
C14_OpenIffAllowed ==
  \A r \in 1..Len(outputs) :
    /\ \A idx \in SchemaNodes(app) :
         LET decl == DeclFor(outputs[r], app, idx)
             open == AllowedAt(Join(CommandNames(app, idx), << "." >>))
         IN decl.structLit.ellipsis = open /\ decl.closed = ~open
    /\ schemaOpts.AllowAll =>
         \A i \in 1..Len(outputs[r]) : ~outputs[r][i].closed
    /\ schemaOpts = AllowUnknownFields(<< n_agent >>) =>
         \A i \in 1..Len(outputs[r]) :
           outputs[r][i].closed = (outputs[r][i].label # << "#", "A", "g", "e", "n", "t" >>)

\* a schema was written under a policy that lists the path of a command
\* which has a command below it: both are open, the root is closed
C14_Witness ==
  /\ Len(outputs) > 0
  /\ ~schemaOpts.AllowAll
  /\ DeclFor(outputs[1], app, << >>).closed
  /\ \E idx \in SchemaNodes(app) :
       /\ Len(idx) = 2
       /\ ~DeclFor(outputs[1], app, idx).closed
       /\ ~DeclFor(outputs[1], app, SubSeq(idx, 1, 1)).closed

\* the fields the definition of the node at idx is to have, as label and
\* origin: the flags that are neither hidden nor reserved, the child
\* commands other than ConfigDoc, and the next segment of every allowed path
\* that runs through the node and names neither a flag nor a child
ExpectedFields(tree, idx) ==
  LET node == NodeAt(tree, idx)
      names == CommandNames(tree, idx)
      reserved == { n_config, n_help, n_help \o << "-", "a", "l", "l" >> }
      flags == SelectSeq(node.flags, LAMBDA f : ~f.hidden /\ f.name \notin reserved)
      kids == SelectSeq(node.children, LAMBDA c : c.type = "command" /\ ~c.configDoc)
      own == [ i \in 1..Len(flags) |-> [ label |-> Snake(flags[i].name), from |-> "flag" ] ]
               \o [ i \in 1..Len(kids) |-> [ label |-> kids[i].name, from |-> "command" ] ]
      through == { Split(schemaOpts.AllowUnknownPaths[i], ".") :
                     i \in 1..Len(schemaOpts.AllowUnknownPaths) }
      wild == { segs[Len(names) + 1] :
                  segs \in { g \in through : /\ Len(g) > Len(names)
                                             /\ SubSeq(g, 1, Len(names)) = names } }
                \ { own[i].label : i \in 1..Len(own) }
  IN [ own |-> own, wild |-> wild ]

\* C15: the fields of each definition are exactly the node's flags that are
\* not hidden and not named config, help or help-all, one reference per
\* direct child command other than the ConfigDoc command, and the synthetic
\* wildcard fields; no hidden flag, reserved flag or ConfigDoc command has a
\* field or a definition anywhere.
C15_FieldsExactly ==
  \A r \in 1..Len(outputs) :
    /\ Len(outputs[r]) = Cardinality(SchemaNodes(app))
    /\ \A idx \in SchemaNodes(app) :
         LET elts == DeclFor(outputs[r], app, idx).structLit.elts
             want == ExpectedFields(app, idx)
             n == Len(want.own)
         IN /\ Len(elts) = n + Cardinality(want.wild)
            /\ \A i \in 1..n :
                 /\ elts[i].label = want.own[i].label
                 /\ (elts[i].value.t = "ref") = (want.own[i].from = "command")
            /\ { elts[i].label : i \in n + 1..Len(elts) } = want.wild
            /\ \A i \in n + 1..Len(elts) :
                 elts[i].optional /\ elts[i].value = Ident("_")

\* a schema was written for a tree with a hidden flag, reserved flags and
\* the ConfigDoc command, under a policy that gives the root a wildcard field
C15_Witness ==
  /\ Len(outputs) > 0
  /\ \E i \in 1..Len(app.flags) : app.flags[i].hidden
  /\ \E i \in 1..Len(app.flags) : app.flags[i].name = n_config
  /\ \E i \in 1..Len(app.children) : app.children[i].configDoc
  /\ ExpectedFields(app, << >>).wild # {}
  /\ Len(DeclFor(outputs[1], app, << >>).structLit.elts)
       = Len(ExpectedFields(app, << >>).own) + 1

\* C16: the options given to one parser are never observed by another:
\* each parse generates its schema with the option its own parser was built
\* with, and each object of pending options is taken by at most one parse.
C16_OptionsIsolated ==
  /\ \A p \in Parsers :
       parsers[p].pc = "generated" => parsers[p].used = parsers[p].wants
  /\ \A p, q \in Parsers :
       (p # q /\ parsers[p].opts # 0 /\ parsers[q].opts # 0)
         => parsers[p].opts # parsers[q].opts

\* the failures of the document against the strict schema, types included
TypeFailures ==
  LET errs == Validate(schema, val, TRUE) IN
  { errs[i] : i \in { j \in 1..Len(errs) : errs[j].msg = "conflicting values" } }

C18_StringCoercion ==
  LET coercible == { F(n_verbose, StrV("2")), F(n_debug, StrV("true")),
                     F(n_agent, StructV(<< F(n_port, StrV("9090")) >>)) }
  IN (/\ validateErr.called
      /\ app = TreeAgent
      /\ val.k = "struct" /\ Len(val.fields) > 0
      /\ \A i \in 1..Len(val.fields) : val.fields[i] \in coercible)
       => validateErr.wording = ""

\* C19: two distinct command paths that give the same definition name are
\* not reduced to one definition: a schema that is written has a definition
\* for every command path.
C19_NoSilentOverwrite ==
  \A r \in 1..Len(outputs) :
    Len(outputs[r]) = Cardinality(SchemaNodes(app))

\* C20: in every generated definition the field names are pairwise
\* distinct; two flags with the same snake_case name, or a flag and a child
\* command with the same name, are not emitted as two fields of one name.
C20_FieldNamesDistinct ==
  \A r \in 1..Len(outputs) : \A d \in 1..Len(outputs[r]) :
    LET elts == outputs[r][d].structLit.elts IN
    \A i, j \in 1..Len(elts) : i # j => elts[i].label # elts[j].label

\* C21: every field name of every generated definition, whether it comes
\* from a flag or from a child command, contains no "-".
C21_NoKebabFieldNames ==
  \A r \in 1..Len(outputs) : \A d \in 1..Len(outputs[r]) :
    LET elts == outputs[r][d].structLit.elts IN
    \A i \in 1..Len(elts) : \A c \in 1..Len(elts[i].label) : elts[i].label[c] # "-"

\* C22: every command at path P has, in the definition of its parent, a
\* reference field named after it that points to the definition named by
\* the PascalCase concatenation of P's segments; that definition is in the
\* emitted file and was recorded with the dotted path P; and no reference
\* points to a definition that is not emitted.
C22_ReferencesResolve ==
  /\ commandDefName(<< n_server, n_tls >>) = << "S", "e", "r", "v", "e", "r", "T", "l", "s" >>
  /\ \A r \in 1..Len(outputs) :
       /\ \A idx \in SchemaNodes(app) \ { << >> } :
            LET names == CommandNames(app, idx)
                up == SubSeq(names, 1, Len(names) - 1)
                parentLabel == IF Len(up) = 0 THEN << "#", "R", "o", "o", "t" >>
                               ELSE << "#" >> \o commandDefName(up)
                defName == commandDefName(names)
                defs == Definitions(app, toInternal(schemaOpts))
            IN /\ \E d \in 1..Len(outputs[r]) :
                    /\ outputs[r][d].label = parentLabel
                    /\ \E i \in 1..Len(outputs[r][d].structLit.elts) :
                         outputs[r][d].structLit.elts[i]
                           = [ label |-> names[Len(names)], optional |-> TRUE,
                               value |-> Ref(defName) ]
               /\ defName \in DOMAIN defs
               /\ defs[defName].path = Join(names, << "." >>)
               /\ \E d \in 1..Len(outputs[r]) : outputs[r][d].label = << "#" >> \o defName
       /\ \A d \in 1..Len(outputs[r]) : \A def \in RefsOf(outputs[r][d]) :
            \E j \in 1..Len(outputs[r]) : outputs[r][j].label = << "#" >> \o def

\* C23: shouldAllowUnknown(path) is true if and only if allow-all is set, or
\* path equals an allowed prefix, or path begins with an allowed prefix
\* followed by "."; a path that only shares a string prefix with an allowed
\* prefix (agentx against agent) is not allowed, and under allow-all the
\* prefix set has no influence.
C23_AllowedIffAtOrBelowPrefix ==
  call.fn = "shouldAllowUnknown" =>
    LET prefixes == { call.opts.allowUnknownPaths[i] :
                        i \in 1..Len(call.opts.allowUnknownPaths) }
        below(p) == /\ Len(call.path) > Len(p)
                    /\ \A i \in 1..Len(p) : call.path[i] = p[i]
                    /\ call.path[Len(p) + 1] = "."
    IN /\ call.allow <=> (\/ call.opts.allowAll
                          \/ \E p \in prefixes : call.path = p \/ below(p))
       /\ call.opts.allowAll => call.allow
       /\ (~call.opts.allowAll /\ prefixes = { n_agent }
           /\ call.path = n_agent \o << "x" >>) => ~call.allow

\* agentx was asked about under the one allowed prefix agent, and refused
C23_Witness ==
  /\ call.fn = "shouldAllowUnknown"
  /\ ~call.opts.allowAll
  /\ call.opts.allowUnknownPaths = << n_agent >>
  /\ call.path = n_agent \o << "x" >>
  /\ ~call.allow

\* C24: getAllowedFieldAtPath(allowed, path) returns the one segment of
\* allowed that follows path when allowed lies strictly below path (at the
\* root: its first segment) and nothing when allowed is unrelated to path or
\* equals it; in the generated definitions that segment is an optional
\* wildcard field only where no flag or command field has the name, and once
\* per name even when several allowed prefixes share it.
C24_NextSegmentInjectedOnce ==
  /\ call.fn = "getAllowedFieldAtPath" =>
       LET a == Split(call.allowed, ".")
           p == IF call.path = << >> THEN << >> ELSE Split(call.path, ".")
       IN call.field = IF Len(a) > Len(p) /\ SubSeq(a, 1, Len(p)) = p
                       THEN a[Len(p) + 1] ELSE << >>
  /\ \A r \in 1..Len(outputs) : \A idx \in SchemaNodes(app) :
       LET elts == DeclFor(outputs[r], app, idx).structLit.elts
           want == ExpectedFields(app, idx)
           n == Len(want.own)
       IN /\ \A i \in n + 1..Len(elts) :
               /\ elts[i].optional /\ elts[i].value = Ident("_")
               /\ elts[i].label \in want.wild
               /\ \A j \in 1..Len(elts) : j # i => elts[j].label # elts[i].label
          /\ \A w \in want.wild : \E i \in n + 1..Len(elts) : elts[i].label = w

\* the next segment of foo.bar at the root was asked for, and a schema was
\* written under a policy with foo.bar, foo.k, log_file.k, agent.port and
\* agent.extra.deep: the root has the one wildcard field foo and none for its
\* flag log_file, and the definition of agent the wildcard field extra and
\* none for its flag port
C24_Witness ==
  /\ call.fn = "getAllowedFieldAtPath"
  /\ call.allowed = n_foo_D_bar /\ call.path = << >> /\ call.field = n_foo
  /\ Len(outputs) > 0
  /\ Len(schemaOpts.AllowUnknownPaths) = 5
  /\ LET root == DeclFor(outputs[1], app, << >>).structLit
         agent == DeclFor(outputs[1], app, << 1 >>).structLit
     IN /\ Len(FieldsLabelled(root, n_foo)) = 1
        /\ FieldsLabelled(root, n_log_file) = << FlagField(StringFlag(n_log_K_file, FALSE),
                                                            toInternal(schemaOpts)) >>
        /\ Len(FieldsLabelled(agent, n_extra)) = 1
        /\ FieldsLabelled(agent, n_port) = << FlagField(IntFlag(n_port, FALSE),
                                                        toInternal(schemaOpts)) >>

\* C26: the type mapper gives a type for every flag and decides in the order
\* list, map, counter, boolean, scalar kind: a list gives a sequence of its
\* element type, the wildcard when the element kind is not recognized; a
\* counter gives int, a boolean bool, a string string, every signed or
\* unsigned integer width int, every float width number, and every other
\* kind the wildcard.
C26_TypeMapperTotal ==
  call.fn = "valueToType" =>
    LET ints == { "int", "int8", "int16", "int32", "int64",
                  "uint", "uint8", "uint16", "uint32", "uint64" }
        scalar(k) == IF k = "string" THEN "string"
                     ELSE IF k \in ints THEN "int"
                     ELSE IF k \in { "float32", "float64" } THEN "number"
                     ELSE IF k = "bool" THEN "bool"
                     ELSE "_"
        flag == call.flag
    IN /\ call.type.t \in { "ident", "list", "struct" }
       /\ flag.kind = "slice" =>
            call.type.t = "list" /\ call.type.id = scalar(flag.elemKind)
       /\ flag.kind = "map" => call.type.t = "struct"
       /\ (flag.kind \notin { "slice", "map" } /\ flag.isCounter) =>
            call.type = Ident("int")
       /\ (flag.kind = "bool" /\ ~flag.isCounter) => call.type = Ident("bool")
       /\ (flag.kind \notin { "slice", "map", "bool" } /\ ~flag.isCounter) =>
            call.type = Ident(scalar(flag.kind))

\* a list of structs was mapped to a sequence of the wildcard
C26_Witness ==
  /\ call.fn = "valueToType"
  /\ call.flag.kind = "slice" /\ call.flag.elemKind = "struct"
  /\ call.flag.isCounter
  /\ call.type = ListLit("_")

\* C25: a document that gives a mapping with any keys under the path of a
\* map-valued flag fails neither pass at or below that path, also when the
\* enclosing definition is closed.
C25_MapFlagAcceptsAnyKeys ==
  Validated =>
    \A idx \in SchemaNodes(app) : \A flag \in DeclaredFlags(app, idx) :
      LET at == Join(FlagPath(app, idx, flag), << "." >>) IN
      (flag.isMap /\ Lookup(val, FlagPath(app, idx, flag)).k = "struct") =>
        \A f \in Failures : f.path # at /\ ~HasPrefix(f.path, at \o << "." >>)

\* C29: for a flag that is not a list and whose path holds an integer other
\* than zero, positive or negative, Resolve returns that integer.
C29_NonZeroIntReturned ==
  (resolved.asked /\ ~resolved.flag.isSlice /\ Stored.k = "int" /\ Stored.n # 0) =>
    resolved.result = MkResult("int", "", Stored.n, << >>)

\* C28: for every flag that is not hidden and not reserved, under any node
\* of the tree, a document value at the dotted path the resolver looks up for
\* the flag is not rejected by validation as an unknown field, neither at
\* that path nor at a section on the way to it.
C28_SchemaAgreesWithResolver ==
  Validated =>
    \A idx \in NodePaths(app) : \A flag \in DeclaredFlags(app, idx) :
      LET cuePath == CuePath(app, idx, flag) IN
      Exists(Lookup(val, Split(cuePath, "."))) =>
        \A f \in Failures :
          f.msg = "field not allowed" =>
            f.path # cuePath /\ ~HasPrefix(cuePath, f.path \o << "." >>)

\* C30: with a policy of prefixes, not allow-all, every key of a document
\* that validation accepted is a declared flag or command field, or lies at
\* or below an allowed prefix, or is a mapping on the way to one: an allowed
\* prefix foo.bar, foo being no command, lets in neither foo.k nor a scalar
\* stored at foo.
C30_OnlyAllowedKeysAccepted ==
  LET RECURSIVE KeyPaths(_, _)
      KeyPaths(v, path) ==
        IF v.k # "struct" THEN {}
        ELSE UNION { { Append(path, v.fields[i].key) }
                       \cup KeyPaths(v.fields[i].val, Append(path, v.fields[i].key)) :
                     i \in 1..Len(v.fields) }
      prefixes == { schemaOpts.AllowUnknownPaths[i] :
                      i \in 1..Len(schemaOpts.AllowUnknownPaths) }
      declared(kp) ==
        \E idx \in SchemaNodes(app) :
          \/ idx # << >> /\ kp = CommandNames(app, idx)
          \/ \E flag \in DeclaredFlags(app, idx) :
               LET fp == FlagPath(app, idx, flag) IN
               kp = fp \/ (Len(kp) > Len(fp) /\ SubSeq(kp, 1, Len(fp)) = fp)
      allowed(kp) ==
        LET at == Join(kp, << "." >>) IN
        \E p \in prefixes : at = p \/ HasPrefix(at, p \o << "." >>)
      onTheWay(kp) ==
        /\ Lookup(val, kp).k = "struct"
        /\ \E p \in prefixes : HasPrefix(p, Join(kp, << "." >>) \o << "." >>)
  IN (pc = "done" /\ hasConfig(val) /\ ~schemaOpts.AllowAll) =>
       \A kp \in KeyPaths(val, << >>) : declared(kp) \/ allowed(kp) \/ onTheWay(kp)

====
